---- MODULE Spec2Model ----
(***************************************************************************)
(* A model of bevy-reflect-check (src/src/main.rs): the scan of a source   *)
(* tree for types that derive Reflect and Component without carrying       *)
(* #[reflect(Component)].                                                  *)
(*                                                                         *)
(* Text is modelled as a sequence of atoms: "foo.rs" is <<"foo", ".rs">>,  *)
(* the module path "a::b" is <<"a", "::", "b">>.  A file-system path is a  *)
(* sequence of components, each component a text.  An Option is a sequence *)
(* of length at most one: <<>> is None, <<v>> is Some(v).                  *)
(***************************************************************************)
EXTENDS Integers, Sequences, FiniteSets

VARIABLES
    pc,                          \* position of the operation under way
    attrs,                       \* derives_..._component: the attribute slice
    idx,                         \* derives_..._component: position of `for attr in attrs`
    derives_reflect,             \* derives_..._component: local flag
    derives_component,           \* derives_..._component: local flag
    has_reflect_component_attr,  \* derives_..._component: local flag
    detected,                    \* derives_..._component: the value returned
    file,                        \* collect_reflect_types: file.items
    module_path,                 \* collect_reflect_types: module_path
    public_only,                 \* collect_reflect_types: public_only
    parent_is_public,            \* collect_reflect_types: parent_is_public
    reflect_types,               \* the findings list (main's and the walker's)
    path,                        \* resolve_module_path: the path argument
    metadata,                    \* metadata.packages, in cargo's order
    resolved,                    \* resolve_module_path: the Option returned
    fs,                          \* the file system: physical file path -> content
    dir,                         \* collect_source_files: the dir argument
    source_files,                \* main: source_files
    module_tree,                 \* main: module_tree (path -> syntax tree)
    pkg_idx,                     \* collect_dependency_files: position in metadata.packages
    load_idx,                    \* main: position of `for path in &source_files`
    visited,                     \* main: module_tree keys the second loop has yielded
    first_run                    \* the findings of an earlier run on the same inputs

detectVars == <<attrs, idx, derives_reflect, derives_component,
                has_reflect_component_attr, detected>>
walkVars == <<file, module_path, public_only, parent_is_public>>
resolveVars == <<path, resolved>>
worldVars == <<fs, metadata>>
mainVars == <<dir, source_files, module_tree, pkg_idx, load_idx, visited, first_run>>
vars == <<pc, detectVars, walkVars, reflect_types, resolveVars, worldVars, mainVars>>

\* ------------------------------------------------------------ bounds
MaxAttrs == 2         \* attributes on one type definition
MaxArgs == 2          \* arguments of one attribute
MaxItems == 3         \* items (types and modules) in one syntax tree
MaxSegments == 4      \* components of a path handed to the module path resolver
MaxPackages == 2      \* packages in the metadata handed to the resolver
MaxDepth == 1         \* directories between a walk's root and a file
MaxFiles == 2         \* files in the file system main runs on
MaxWalkFiles == 2     \* files in the file system one directory walk runs on

\* ------------------------------------------------------------ text
Some(v) == <<v>>
None == <<>>

IsPrefix(p, q) == Len(p) <= Len(q) /\ SubSeq(q, 1, Len(p)) = p

RECURSIVE Join(_, _)
\* [String].join(sep): the texts of `parts` with `sep` between neighbours.
Join(parts, sep) ==
    IF parts = <<>> THEN <<>>
    ELSE IF Len(parts) = 1 THEN parts[1]
    ELSE parts[1] \o sep \o Join(Tail(parts), sep)

\* format!("{}::{}", a, b)
FormatPath(a, b) == a \o <<"::">> \o b

\* ------------------------------------------------------------ attributes
\* An attribute #[path(tokens)] (meta "List"), #[path] ("Path") or
\* #[path = v] ("NameValue").  tokens are the comma-separated arguments:
\*   kind "path"       ident                a plain path
\*   kind "namevalue"  ident = value
\*   kind "list"       ident(value)
\*   kind "lit"        a literal: no leading path
Arg(k, i, v) == [kind |-> k, ident |-> i, value |-> v]
Attr(p, m, t) == [path |-> p, meta |-> m, tokens |-> t]

PReflect == Arg("path", "Reflect", "")
PComponent == Arg("path", "Component", "")
PDefault == Arg("path", "Default", "")
NameValueArg == Arg("namevalue", "from_reflect", "false")
ListArg == Arg("list", "Clone", "clone_fn")
LitArg == Arg("lit", "", "\"x\"")

DetectArgs == {PReflect, PComponent, PDefault, NameValueArg, ListArg, LitArg}
DetectAttrPaths == {"derive", "reflect", "doc"}

\* The words whose text contains "test".
TestWords == {"test", "\"testing\""}

\* meta_list.tokens.to_string().contains("test")
TokensContainTest(tokens) ==
    \E i \in 1..Len(tokens) :
        tokens[i].ident \in TestWords \/ tokens[i].value \in TestWords

\* has_cfg_test with the bug of matching #[cfg(test)] only.
has_cfg_test_exact(ats) ==
    \E i \in 1..Len(ats) :
        /\ ats[i].meta = "List"
        /\ ats[i].path = "cfg"
        /\ ats[i].tokens = <<Arg("path", "test", "")>>

has_cfg_test(ats) ==
    \E i \in 1..Len(ats) :
        /\ ats[i].meta = "List"
        /\ ats[i].path = "cfg"
        /\ TokensContainTest(ats[i].tokens)

\* ------------------------------------------------------------ detection predicate
Flags(r, c, h) == [derives_reflect |-> r, derives_component |-> c,
                   has_reflect_component_attr |-> h]

\* The closure handed to parse_nested_meta for #[derive(...)].
DeriveLogic(flags, ident) ==
    IF ident = "Reflect" THEN [flags EXCEPT !.derives_reflect = TRUE]
    ELSE IF ident = "Component" THEN [flags EXCEPT !.derives_component = TRUE]
    ELSE flags

\* The closure handed to parse_nested_meta for #[reflect(...)].
ReflectLogic(flags, ident) ==
    IF ident = "Component" THEN [flags EXCEPT !.has_reflect_component_attr = TRUE]
    ELSE flags

Logic(which, flags, ident) ==
    IF which = "derive" THEN DeriveLogic(flags, ident) ELSE ReflectLogic(flags, ident)

RECURSIVE parse_nested_meta(_, _, _, _)
\* syn's MetaList::parse_nested_meta from argument i on: parse a path, run the
\* closure on it, then expect the end or a comma.  A literal has no path, and a
\* `= value` or `(...)` the closure did not consume is not a comma: both end
\* the parse with an error, which the caller drops with .ok(); what the
\* closure has set by then stays set.
parse_nested_meta(tokens, i, which, flags) ==
    IF i > Len(tokens) THEN flags
    ELSE IF tokens[i].kind = "lit" THEN flags
    ELSE LET after == Logic(which, flags, tokens[i].ident)
         IN  IF tokens[i].kind = "path"
             THEN parse_nested_meta(tokens, i + 1, which, after)
             ELSE after

\* One iteration of `for attr in attrs`.
AttrStep(flags, attr) ==
    IF attr.meta = "List" /\ attr.path \in {"derive", "reflect"}
    THEN parse_nested_meta(attr.tokens, 1, attr.path, flags)
    ELSE flags

RECURSIVE ScanAttrs(_, _, _)
ScanAttrs(ats, i, flags) ==
    IF i > Len(ats) THEN flags ELSE ScanAttrs(ats, i + 1, AttrStep(flags, ats[i]))

derives_reflect_and_component_but_no_reflect_component(ats) ==
    LET f == ScanAttrs(ats, 1, Flags(FALSE, FALSE, FALSE))
    IN  f.derives_reflect /\ f.derives_component /\ ~f.has_reflect_component_attr

\* ------------------------------------------------------------ syntax trees
\* An item of a syntax tree.  content is the Option of a module's inline body.
Item(k, v, a, n, c) == [kind |-> k, vis |-> v, attrs |-> a, ident |-> n, content |-> c]

DeriveBoth == Attr("derive", "List", <<PReflect, PComponent>>)
ReflectComponent == Attr("reflect", "List", <<PComponent>>)
Qualifying == <<DeriveBoth>>
Registered == <<DeriveBoth, ReflectComponent>>
CfgTest == Attr("cfg", "List", <<Arg("path", "test", "")>>)
CfgNotTest == Attr("cfg", "List", <<Arg("list", "not", "test")>>)
CfgUnix == Attr("cfg", "List", <<Arg("path", "unix", "")>>)

\* The items a syntax tree is built from (the ident is given on insertion).
TypeItems ==
    { Item("Struct", "Public", Qualifying, "", None),
      Item("Struct", "Inherited", Qualifying, "", None),
      Item("Enum", "Restricted", Qualifying, "", None),
      Item("Struct", "Public", Registered, "", None) }
ModItems ==
    { Item("Mod", "Public", <<>>, "", Some(<<>>)),
      Item("Mod", "Inherited", <<>>, "", Some(<<>>)),
      Item("Mod", "Public", <<CfgTest>>, "", Some(<<>>)),
      Item("Mod", "Public", <<CfgUnix, CfgNotTest>>, "", Some(<<>>)),
      Item("Mod", "Public", <<CfgUnix>>, "", Some(<<>>)),
      Item("Mod", "Public", <<>>, "", None) }
OtherItems == { Item("Fn", "Public", <<>>, "", None) }
TreeItems == TypeItems \cup ModItems \cup OtherItems

IdentNames == <<"A", "B", "C", "D", "E", "F">>

IsType(item) == item.kind \in {"Struct", "Enum"}
IsInlineMod(item) == item.kind = "Mod" /\ item.content # None

RECURSIVE CountItems(_)
CountItems(items) ==
    IF items = <<>> THEN 0
    ELSE 1 + (IF IsInlineMod(Head(items)) THEN CountItems(Head(items).content[1]) ELSE 0)
           + CountItems(Tail(items))

RECURSIVE ModPositions(_)
\* The positions (child indexes from the root) of the bodies an item can be
\* added to: the root's and every inline module's.
ModPositions(items) ==
    {<<>>} \cup UNION { { <<i>> \o p : p \in ModPositions(items[i].content[1]) } :
                        i \in { j \in 1..Len(items) : IsInlineMod(items[j]) } }

RECURSIVE InsertAt(_, _, _)
InsertAt(items, pos, item) ==
    IF pos = <<>>
    THEN Append(items, [item EXCEPT !.ident = IdentNames[Len(items) + 1]])
    ELSE [items EXCEPT ![Head(pos)].content =
              Some(InsertAt(items[Head(pos)].content[1], Tail(pos), item))]

RECURSIVE BodyAt(_, _)
BodyAt(items, pos) ==
    IF pos = <<>> THEN items ELSE BodyAt(items[Head(pos)].content[1], Tail(pos))

\* ------------------------------------------------------------ the walker
\* is_public with the bug of taking every explicit modifier (pub(crate),
\* pub(super)) for `pub`.
is_public_any_modifier(item) ==
    item.kind \in {"Struct", "Enum", "Mod"} /\ item.vis # "Inherited"

is_public(item) ==
    item.kind \in {"Struct", "Enum", "Mod"} /\ item.vis = "Public"

\* line 215 with the bug of skipping a non-visible module whatever public_only is.
ModSkippedAlways(po, item_is_public) == ~item_is_public

\* `if public_only && !item_is_public { continue; }` of the Item::Mod arm.
ModSkipped(po, item_is_public) == po /\ ~item_is_public

\* `if public_only && !item_is_public { continue; }` of the Struct and Enum arms.
TypeSkipped(po, item_is_public) == po /\ ~item_is_public

RECURSIVE collect_reflect_types(_, _, _, _, _)
\* The value of reflect_types after collect_reflect_types(file, module_path,
\* reflect_types, public_only, parent_is_public), file.items being `items`.
collect_reflect_types(items, mp, rt, po, pip) ==
    IF items = <<>> THEN rt
    ELSE LET item == Head(items)
             item_is_public == is_public(item) /\ pip
             after ==
                 IF /\ IsType(item)
                    /\ derives_reflect_and_component_but_no_reflect_component(item.attrs)
                 THEN IF TypeSkipped(po, item_is_public) THEN rt
                      ELSE Append(rt, FormatPath(mp, <<item.ident>>))
                 ELSE IF item.kind = "Mod" /\ ~has_cfg_test(item.attrs)
                 THEN IF ModSkipped(po, item_is_public) THEN rt
                      ELSE IF item.content # None
                      THEN collect_reflect_types(item.content[1],
                               FormatPath(mp, <<item.ident>>), rt, po, item_is_public)
                      ELSE rt
                 ELSE rt
         IN  collect_reflect_types(Tail(items), mp, after, po, pip)

\* ------------------------------------------------------------ paths
CurDir == <<".">>
RootDir == <<"/">>
Src == <<"src">>
CargoToml == <<"Cargo", ".toml">>

\* Path::parent
Parent(p) ==
    IF p = <<>> \/ p = <<RootDir>> THEN None ELSE Some(SubSeq(p, 1, Len(p) - 1))

\* Path::strip_prefix(base).ok()
strip_prefix(p, base) ==
    IF IsPrefix(base, p) THEN Some(SubSeq(p, Len(base) + 1, Len(p))) ELSE None

\* Path::extension() == Some("rs"): the file name ends in ".rs" and is more
\* than the bare ".rs".
HasRsExtension(name) == Len(name) >= 2 /\ name[Len(name)] = ".rs"

RECURSIVE trim_end_matches_rs(_)
\* str::trim_end_matches(".rs"): every trailing ".rs" is removed.
trim_end_matches_rs(s) ==
    IF s # <<>> /\ s[Len(s)] = ".rs"
    THEN trim_end_matches_rs(SubSeq(s, 1, Len(s) - 1))
    ELSE s

NotMod(s) == s # <<"mod">>

relative_path_to_module_path(p) ==
    LET trimmed == [i \in 1..Len(p) |-> trim_end_matches_rs(p[i])]
    IN  Join(SelectSeq(trimmed, NotMod), <<"::">>)

\* A package of the metadata.
Package(n, m) == [name |-> n, manifest_path |-> m]

RECURSIVE crate_root_for_file(_, _, _)
\* crate_root_for_file from package i on: the name of the first package whose
\* manifest directory the path starts with.
crate_root_for_file(p, md, i) ==
    IF i > Len(md) THEN None
    ELSE LET crate_root == Parent(md[i].manifest_path)
         IN  IF crate_root = None THEN None
             ELSE IF IsPrefix(crate_root[1], p) THEN Some(md[i].name)
             ELSE crate_root_for_file(p, md, i + 1)

\* The manifest directory of the first package of that name.
crate_root_path(crate_name, md) ==
    LET hits == { i \in 1..Len(md) : md[i].name = crate_name }
    IN  IF hits = {} THEN None
        ELSE Parent(md[CHOOSE i \in hits : \A j \in hits : i <= j].manifest_path)

resolve_module_path(p, md) ==
    LET crate_name == crate_root_for_file(p, md, 1)
    IN  IF crate_name # None
        THEN LET root == crate_root_path(crate_name[1], md)
                 relative_path == IF root = None THEN None
                                  ELSE strip_prefix(p, root[1])
             IN  IF relative_path = None THEN None
                 ELSE Some(FormatPath(crate_name[1],
                                      relative_path_to_module_path(relative_path[1])))
        ELSE LET relative_path == strip_prefix(p, <<Src>>)
             IN  IF relative_path = None THEN None
                 ELSE Some(relative_path_to_module_path(relative_path[1]))

\* ------------------------------------------------------------ source discovery
\* The process's working directory.
Cwd == <<RootDir, <<"ws">>>>

\* Where the operating system finds the path `p` names.
Physical(p) == IF p # <<>> /\ p[1] = CurDir THEN Cwd \o Tail(p) ELSE p

\* Path::file_name().and_then(to_str).unwrap_or("")
FileName(p) == IF p = <<>> \/ p[Len(p)] \in {CurDir, RootDir} THEN <<>> ELSE p[Len(p)]

\* should_include_dir with the bug of pruning `tests` only.
should_include_dir_tests_only(p) == FileName(p) # <<"tests">>

should_include_dir(p) ==
    ~(FileName(p) = <<"examples">> \/ FileName(p) = <<"tests">>)

\* The entries of the directory `p` (a path as the walk names it).
Children(files, p) ==
    { p \o <<f[Len(Physical(p)) + 1]>> :
        f \in { g \in files : IsPrefix(Physical(p), g) /\ Len(g) > Len(Physical(p)) } }

\* Whether the walk finds an entry at `p`: a file, or a directory above one.
Exists(files, p) == \E f \in files : IsPrefix(Physical(p), f)

RECURSIVE WalkFrom(_, _)
\* WalkDir::new(..).into_iter().filter_entry(should_include_dir) from the
\* entry `p` down, and the paths the loop body pushes: an entry the predicate
\* rejects is not yielded and not descended into.
WalkFrom(files, p) ==
    IF ~should_include_dir(p) THEN {}
    ELSE (IF HasRsExtension(FileName(p)) THEN {p} ELSE {})
         \cup UNION { WalkFrom(files, c) : c \in Children(files, p) }

\* The paths collect_source_files(dir, ..) pushes, in no particular order.  A
\* root that does not exist yields one error, which filter_map drops.
collect_source_files(files, d) ==
    IF Exists(files, d) THEN WalkFrom(files, d) ELSE {}

\* The orders a walk can yield a set of paths in.
Orderings(S) ==
    { s \in [1..Cardinality(S) -> S] : \A i, j \in DOMAIN s : s[i] = s[j] => i = j }

\* package.name.starts_with("bevy_")
StartsWithBevy(name) == name # <<>> /\ name[1] = "bevy_"

\* ------------------------------------------------------------ main
\* A file's content: whether fs::read_to_string and parse_file succeed, and
\* the items of the syntax tree.
Content(r, ok, items) == [readable |-> r, parses |-> ok, items |-> items]

build_module_tree(p, syntax, mt) ==
    [q \in DOMAIN mt \cup {p} |-> IF q = p THEN syntax ELSE mt[q]]

\* The second loop's body with the bug of starting a new findings list for
\* every file.
CollectFileFresh(rt, p, syntax, md) ==
    LET mp == resolve_module_path(p, md)
    IN  IF mp = None THEN rt
        ELSE collect_reflect_types(syntax, mp[1], <<>>, TRUE, TRUE)

\* The body of `for (path, syntax) in &module_tree`.
CollectFile(rt, p, syntax, md) ==
    LET mp == resolve_module_path(p, md)
    IN  IF mp = None THEN rt
        ELSE collect_reflect_types(syntax, mp[1], rt, TRUE, TRUE)

\* ------------------------------------------------------------ initial values
DetectInit ==
    /\ attrs = <<>>
    /\ idx = 1
    /\ derives_reflect = FALSE
    /\ derives_component = FALSE
    /\ has_reflect_component_attr = FALSE
    /\ detected = FALSE
WalkInit ==
    /\ file = <<>>
    /\ module_path = <<>>
    /\ public_only = TRUE
    /\ parent_is_public = TRUE
ResolveInit == path = <<>> /\ resolved = None
WorldInit == fs = <<>> /\ metadata = <<>>
MainInit ==
    /\ dir = <<>>
    /\ source_files = <<>>
    /\ module_tree = <<>>
    /\ pkg_idx = 1
    /\ load_idx = 1
    /\ visited = {}
    /\ first_run = None
AllInit ==
    /\ DetectInit /\ WalkInit /\ ResolveInit /\ WorldInit /\ MainInit
    /\ reflect_types = <<>>

\* ------------------------------------------------------------ the detection predicate, run
RECURSIVE SeqsUpTo(_, _)
\* The sequences over S of length at most n.
SeqsUpTo(S, n) ==
    IF n = 0 THEN {<<>>}
    ELSE LET shorter == SeqsUpTo(S, n - 1)
         IN  shorter \cup { Append(s, x) : s \in { t \in shorter : Len(t) = n - 1 }, x \in S }

DetectAttrs ==
    { Attr(p, "List", t) : p \in DetectAttrPaths, t \in SeqsUpTo(DetectArgs, MaxArgs) }
    \cup { Attr("reflect", "Path", <<>>), Attr("derive", "NameValue", <<>>) }

\* The caller writes one more attribute on the type definition.
PushAttr(a) ==
    /\ pc = "attrs"
    /\ Len(attrs) < MaxAttrs
    /\ attrs' = Append(attrs, a)
    /\ UNCHANGED <<pc, idx, derives_reflect, derives_component,
                   has_reflect_component_attr, detected>>
    /\ UNCHANGED <<walkVars, reflect_types, resolveVars, worldVars, mainVars>>

\* derives_reflect_and_component_but_no_reflect_component is entered.
DetectCall ==
    /\ pc = "attrs"
    /\ pc' = "detect_loop"
    /\ idx' = 1
    /\ derives_reflect' = FALSE
    /\ derives_component' = FALSE
    /\ has_reflect_component_attr' = FALSE
    /\ UNCHANGED <<attrs, detected>>
    /\ UNCHANGED <<walkVars, reflect_types, resolveVars, worldVars, mainVars>>

\* One iteration of `for attr in attrs`.
DetectLoop ==
    /\ pc = "detect_loop"
    /\ idx <= Len(attrs)
    /\ LET f == AttrStep(Flags(derives_reflect, derives_component,
                               has_reflect_component_attr), attrs[idx])
       IN  /\ derives_reflect' = f.derives_reflect
           /\ derives_component' = f.derives_component
           /\ has_reflect_component_attr' = f.has_reflect_component_attr
    /\ idx' = idx + 1
    /\ UNCHANGED <<pc, attrs, detected>>
    /\ UNCHANGED <<walkVars, reflect_types, resolveVars, worldVars, mainVars>>

\* The loop is over: the function returns.
DetectReturn ==
    /\ pc = "detect_loop"
    /\ idx > Len(attrs)
    /\ detected' = (derives_reflect /\ derives_component /\ ~has_reflect_component_attr)
    /\ pc' = "detect_done"
    /\ UNCHANGED <<attrs, idx, derives_reflect, derives_component,
                   has_reflect_component_attr>>
    /\ UNCHANGED <<walkVars, reflect_types, resolveVars, worldVars, mainVars>>

InitDetect == AllInit /\ pc = "attrs"
NextDetect ==
    \/ \E a \in DetectAttrs : PushAttr(a)
    \/ DetectCall
    \/ DetectLoop
    \/ DetectReturn
SpecDetect == InitDetect /\ [][NextDetect]_vars

\* ------------------------------------------------------------ the walker, run
WalkModulePaths == { <<"bevy_", "a", "::", "src", "::", "lib">> }

\* The parser hands over a tree with one more item in it.
AddItem(pos, item) ==
    /\ pc = "tree"
    /\ CountItems(file) < MaxItems
    /\ Len(BodyAt(file, pos)) < Len(IdentNames)
    /\ file' = InsertAt(file, pos, item)
    /\ UNCHANGED <<pc, module_path, public_only, parent_is_public>>
    /\ UNCHANGED <<detectVars, reflect_types, resolveVars, worldVars, mainVars>>

\* collect_reflect_types(file, module_path, &mut vec![], po, pip)
Walk(mp, po, pip) ==
    /\ pc = "tree"
    /\ pc' = "walked"
    /\ module_path' = mp
    /\ public_only' = po
    /\ parent_is_public' = pip
    /\ reflect_types' = collect_reflect_types(file, mp, <<>>, po, pip)
    /\ UNCHANGED file
    /\ UNCHANGED <<detectVars, resolveVars, worldVars, mainVars>>

InitWalk == AllInit /\ pc = "tree"
NextWalk ==
    \/ \E pos \in ModPositions(file), item \in TreeItems : AddItem(pos, item)
    \/ \E mp \in WalkModulePaths, po \in BOOLEAN, pip \in BOOLEAN : Walk(mp, po, pip)
SpecWalk == InitWalk /\ [][NextWalk]_vars

\* ------------------------------------------------------------ reading a syntax tree
RECURSIVE Positions(_)
\* The positions of all items of a tree: child indexes from the root.
Positions(items) ==
    UNION { {<<i>>} \cup (IF IsInlineMod(items[i])
                          THEN { <<i>> \o p : p \in Positions(items[i].content[1]) }
                          ELSE {}) : i \in 1..Len(items) }

RECURSIVE NodeAt(_, _)
NodeAt(items, pos) ==
    IF Len(pos) = 1 THEN items[pos[1]]
    ELSE NodeAt(items[pos[1]].content[1], Tail(pos))

\* The enclosing modules of the item at pos, outermost first.
Enclosing(pos) == { SubSeq(pos, 1, k) : k \in 1..(Len(pos) - 1) }

RECURSIVE PathText(_, _, _)
\* The fully qualified path of the item at pos under the module path mp.
PathText(items, pos, mp) ==
    IF Len(pos) = 1 THEN mp \o <<"::", items[pos[1]].ident>>
    ELSE PathText(items[pos[1]].content[1], Tail(pos),
                  mp \o <<"::", items[pos[1]].ident>>)

Range(s) == { s[i] : i \in DOMAIN s }

\* A cfg attribute whose argument text contains "test".
IsTestGuard(item) ==
    \E a \in Range(item.attrs) :
        /\ a.path = "cfg"
        /\ a.meta = "List"
        /\ \E t \in Range(a.tokens) : t.ident \in TestWords \/ t.value \in TestWords

\* A type definition that derives Reflect and Component and has no
\* #[reflect(Component)].
IsQualifyingType(item) == IsType(item) /\ item.attrs = Qualifying

\* C3: after collect_reflect_types, whatever public_only and parent_is_public
\* are, no finding is the path of a type definition that has a test-guarded
\* module among its enclosing modules, at any depth.
C3_TestGuardedNeverReported ==
    pc = "walked" =>
        \A pos \in Positions(file) :
            (/\ IsType(NodeAt(file, pos))
             /\ \E m \in Enclosing(pos) : IsTestGuard(NodeAt(file, m)))
            => PathText(file, pos, module_path) \notin Range(reflect_types)

\* C3's case: a public qualifying type two modules deep, all its modules
\* public and the outer one test-guarded, walked with public_only off, is not
\* among the findings.
C3_Witness ==
    /\ pc = "walked"
    /\ ~public_only
    /\ parent_is_public
    /\ \E pos \in Positions(file) :
        /\ Len(pos) = 3
        /\ IsQualifyingType(NodeAt(file, pos))
        /\ NodeAt(file, pos).vis = "Public"
        /\ \A m \in Enclosing(pos) : NodeAt(file, m).vis = "Public"
        /\ IsTestGuard(NodeAt(file, SubSeq(pos, 1, 1)))
        /\ ~IsTestGuard(NodeAt(file, SubSeq(pos, 1, 2)))
        /\ PathText(file, pos, module_path) \notin Range(reflect_types)

\* C4: with public_only and the root's parent_is_public both true, every
\* finding is the path of a type definition that carries `pub` and whose
\* enclosing modules, up to the file root, all carry `pub`.
C4_ReportedOnlyIfAllPublic ==
    (pc = "walked" /\ public_only /\ parent_is_public) =>
        \A k \in 1..Len(reflect_types) :
            \E pos \in Positions(file) :
                /\ IsType(NodeAt(file, pos))
                /\ PathText(file, pos, module_path) = reflect_types[k]
                /\ NodeAt(file, pos).vis = "Public"
                /\ \A m \in Enclosing(pos) : NodeAt(file, m).vis = "Public"

\* C4's case: private `mod outer` holding `pub mod inner` holding a pub
\* qualifying type, and nothing else: nothing is reported.
C4_Witness ==
    /\ pc = "walked"
    /\ public_only
    /\ parent_is_public
    /\ Len(file) = 1
    /\ Positions(file) = { <<1>>, <<1, 1>>, <<1, 1, 1>> }
    /\ NodeAt(file, <<1>>).kind = "Mod"
    /\ NodeAt(file, <<1>>).vis = "Inherited"
    /\ NodeAt(file, <<1>>).attrs = <<>>
    /\ NodeAt(file, <<1, 1>>).vis = "Public"
    /\ NodeAt(file, <<1, 1>>).attrs = <<>>
    /\ IsQualifyingType(NodeAt(file, <<1, 1, 1>>))
    /\ NodeAt(file, <<1, 1, 1>>).vis = "Public"
    /\ reflect_types = <<>>

RECURSIVE walker_4_5(_, _, _, _, _)
\* The walker of the specification's section 4.5: it recurses into every
\* inline module that has no test guard, with child_visible = own visibility
\* AND parent_visible, and filters at the type definitions only.
walker_4_5(items, mp, findings, po, parent_visible) ==
    IF items = <<>> THEN findings
    ELSE LET item == Head(items)
             own == item.vis = "Public"
             after ==
                 IF /\ IsType(item)
                    /\ derives_reflect_and_component_but_no_reflect_component(item.attrs)
                 THEN IF po /\ ~(own /\ parent_visible) THEN findings
                      ELSE Append(findings, mp \o <<"::", item.ident>>)
                 ELSE IF item.kind = "Mod" /\ IsTestGuard(item) THEN findings
                 ELSE IF IsInlineMod(item)
                 THEN walker_4_5(item.content[1], mp \o <<"::", item.ident>>,
                                 findings, po, own /\ parent_visible)
                 ELSE findings
         IN  walker_4_5(Tail(items), mp, after, po, parent_visible)

\* C9: collect_reflect_types returns the findings list of the section 4.5
\* walker, entry for entry; and with public_only off every qualifying type
\* definition with no test-guarded enclosing module is among the findings.
C9_WalkerRefinesSection45 ==
    pc = "walked" =>
        /\ reflect_types = walker_4_5(file, module_path, <<>>, public_only, parent_is_public)
        /\ ~public_only =>
             \A pos \in Positions(file) :
                 (/\ IsQualifyingType(NodeAt(file, pos))
                  /\ \A m \in Enclosing(pos) : ~IsTestGuard(NodeAt(file, m)))
                 => PathText(file, pos, module_path) \in Range(reflect_types)

\* C9's case: the code skips a module that is not visible, with a public
\* qualifying type inside, where the section 4.5 walker descends.
C9_Witness ==
    /\ pc = "walked"
    /\ public_only
    /\ parent_is_public
    /\ \E pos \in Positions(file) :
        /\ Len(pos) = 2
        /\ IsQualifyingType(NodeAt(file, pos))
        /\ NodeAt(file, pos).vis = "Public"
        /\ NodeAt(file, SubSeq(pos, 1, 1)).vis = "Inherited"
        /\ ~IsTestGuard(NodeAt(file, SubSeq(pos, 1, 1)))
    /\ \E pos \in Positions(file) : Len(pos) = 1 /\ IsQualifyingType(NodeAt(file, pos))
                                    /\ NodeAt(file, pos).vis = "Public"
    /\ Len(reflect_types) = 1

\* ------------------------------------------------------------ the detection predicate's claims
\* Some attribute #[p(...)] of the list has the plain identifier id among its
\* arguments.
ListsIdent(ats, p, id) ==
    \E a \in Range(ats) :
        a.meta = "List" /\ a.path = p /\ Arg("path", id, "") \in Range(a.tokens)

\* C1: the predicate returns true iff a derive attribute lists Reflect, a
\* derive attribute lists Component and no reflect attribute lists Component,
\* however the identifiers are spread over the attributes.
C1_TruthTable ==
    pc = "detect_done" =>
        detected = (/\ ListsIdent(attrs, "derive", "Reflect")
                    /\ ListsIdent(attrs, "derive", "Component")
                    /\ ~ListsIdent(attrs, "reflect", "Component"))

\* C8: each flag is set by the mere presence of its identifier in an argument
\* list of the right attribute, whatever arguments precede it there.
C8_FlagsSetByPresence ==
    pc = "detect_done" =>
        /\ derives_reflect = ListsIdent(attrs, "derive", "Reflect")
        /\ derives_component = ListsIdent(attrs, "derive", "Component")
        /\ has_reflect_component_attr = ListsIdent(attrs, "reflect", "Component")

\* ------------------------------------------------------------ the resolver, run
ResolveComponents ==
    { RootDir, CurDir, Src, <<"a">>, <<"mod">>, <<"mod", ".rs">>, <<"bar", ".rs">> }
ResolvePackages ==
    { Package(n, r \o <<CargoToml>>) :
        n \in { <<"bevy_", "a">>, <<"bevy_", "b">> },
        r \in { <<RootDir, <<"a">>>>, <<RootDir, <<"a">>, <<"a">>>>, <<RootDir, Src>> } }

\* The caller's path grows by one component ( "/" and "." only lead a path).
PushComponent(c) ==
    /\ pc = "path"
    /\ Len(path) < MaxSegments
    /\ c \in {RootDir, CurDir} => path = <<>>
    /\ path' = Append(path, c)
    /\ UNCHANGED <<pc, resolved, metadata, fs>>
    /\ UNCHANGED <<detectVars, walkVars, reflect_types, mainVars>>

\* cargo reports one more package.
PushPackage(pkg) ==
    /\ pc = "path"
    /\ Len(metadata) < MaxPackages
    /\ metadata' = Append(metadata, pkg)
    /\ UNCHANGED <<pc, path, resolved, fs>>
    /\ UNCHANGED <<detectVars, walkVars, reflect_types, mainVars>>

\* resolve_module_path(path, &metadata)
Resolve ==
    /\ pc = "path"
    /\ pc' = "resolved"
    /\ resolved' = resolve_module_path(path, metadata)
    /\ UNCHANGED <<path, metadata, fs>>
    /\ UNCHANGED <<detectVars, walkVars, reflect_types, mainVars>>

\* relative_path_to_module_path(path), for a path of plain components.
Convert ==
    /\ pc = "path"
    /\ \A i \in 1..Len(path) : path[i] \notin {RootDir, CurDir}
    /\ pc' = "converted"
    /\ resolved' = Some(relative_path_to_module_path(path))
    /\ UNCHANGED <<path, metadata, fs>>
    /\ UNCHANGED <<detectVars, walkVars, reflect_types, mainVars>>

InitResolve == AllInit /\ pc = "path"
NextResolve ==
    \/ \E c \in ResolveComponents : PushComponent(c)
    \/ \E pkg \in ResolvePackages : PushPackage(pkg)
    \/ Resolve
    \/ Convert
SpecResolve == InitResolve /\ [][NextResolve]_vars

\* The segment without its extension.
StripExtension(seg) ==
    IF seg # <<>> /\ seg[Len(seg)] = ".rs" THEN SubSeq(seg, 1, Len(seg) - 1) ELSE seg

\* The module path as C5 has it: the segments joined by "::", the final one
\* without its extension and left out when it is `mod`, the others unchanged.
ModulePathOfFinalSegmentRule(p) ==
    IF p = <<>> THEN <<>>
    ELSE LET last == StripExtension(p[Len(p)])
             front == SubSeq(p, 1, Len(p) - 1)
         IN  Join(IF last = <<"mod">> THEN front ELSE Append(front, last), <<"::">>)

\* C5: relative_path_to_module_path strips the extension of the final segment
\* only and discards only a final `mod`; every other segment is kept as it is.
C5_OnlyFinalSegmentRewritten ==
    pc = "converted" => resolved = Some(ModulePathOfFinalSegmentRule(path))

\* The packages whose manifest directory is an ancestor of the path.
Owners(p, md) ==
    { i \in 1..Len(md) :
        Parent(md[i].manifest_path) # None /\ IsPrefix(Parent(md[i].manifest_path)[1], p) }

\* The result C6 requires: the first owning package's name and the module path
\* of the rest; for a path no package owns, the module path below the local
\* source root (`src`, or `./src` as main's scan names it); otherwise None.
RequiredResolution(p, md) ==
    IF Owners(p, md) # {}
    THEN LET i == CHOOSE o \in Owners(p, md) : \A o2 \in Owners(p, md) : o <= o2
             root == Parent(md[i].manifest_path)[1]
         IN  Some(FormatPath(md[i].name,
                    relative_path_to_module_path(SubSeq(p, Len(root) + 1, Len(p)))))
    ELSE IF IsPrefix(<<Src>>, p)
    THEN Some(relative_path_to_module_path(SubSeq(p, 2, Len(p))))
    ELSE IF IsPrefix(<<CurDir, Src>>, p)
    THEN Some(relative_path_to_module_path(SubSeq(p, 3, Len(p))))
    ELSE None

\* C6: resolve_module_path returns exactly that, for any path and any
\* metadata, lists in which two packages share a name included.
C6_ResolvesEveryOwnedOrLocalPath ==
    pc = "resolved" => resolved = RequiredResolution(path, metadata)

\* ------------------------------------------------------------ source discovery, run
DirNames == { <<"tests">>, <<"examples">>, <<"fixtures">>, <<"gen", ".rs">> }
FileNames == { <<"lib", ".rs">>, <<"notes", ".md">> }
WalkPaths ==
    { Cwd \o <<Src>> \o chain \o <<f>> : chain \in SeqsUpTo(DirNames, MaxDepth), f \in FileNames }
\* The roots a walk is started at: main's "./src", and two manifest directories.
WalkRoots ==
    { <<CurDir, Src>>, Cwd \o <<Src, <<"tests">>>>, Cwd \o <<Src, <<"fixtures">>>> }

NoContent == Content(TRUE, FALSE, <<>>)

\* The file system holds one more file.
AddFile(p, c, max) ==
    /\ pc = "world"
    /\ Cardinality(DOMAIN fs) < max
    /\ p \notin DOMAIN fs
    /\ fs' = [q \in DOMAIN fs \cup {p} |-> IF q = p THEN c ELSE fs[q]]
    /\ UNCHANGED <<pc, metadata>>
    /\ UNCHANGED <<detectVars, walkVars, reflect_types, resolveVars, mainVars>>

\* collect_source_files(d, &mut vec![])
CollectSourceFiles(d) ==
    /\ pc = "world"
    /\ pc' = "collected"
    /\ dir' = d
    /\ source_files' \in Orderings(collect_source_files(DOMAIN fs, d))
    /\ UNCHANGED <<module_tree, pkg_idx, load_idx, visited, first_run>>
    /\ UNCHANGED <<detectVars, walkVars, reflect_types, resolveVars, worldVars>>

InitDiscover == AllInit /\ pc = "world"
NextDiscover ==
    \/ \E p \in WalkPaths : AddFile(p, NoContent, MaxWalkFiles)
    \/ \E d \in WalkRoots : CollectSourceFiles(d)
SpecDiscover == InitDiscover /\ [][NextDiscover]_vars

\* The entries of the file system below (or at) the root `d`, as the walk
\* names them: the files, and the directories above them.
EntriesBelow(files, d) ==
    UNION { { d \o SubSeq(f, Len(Physical(d)) + 1, k) : k \in Len(Physical(d))..Len(f) } :
            f \in { g \in files : IsPrefix(Physical(d), g) } }

\* The path has a component of that name from the root `d` on, the root's own
\* name and the entry's own name included.
PassesThrough(p, d, names) == \E i \in Len(d)..Len(p) : p[i] \in names

Reg == <<"reg">>
PkgA == Package(<<"bevy_", "a">>, <<RootDir, Reg, <<"a">>, CargoToml>>)
PkgA2 == Package(<<"bevy_", "a">>, <<RootDir, Reg, <<"a2">>, CargoToml>>)
PkgApp == Package(<<"app">>, Cwd \o <<CargoToml>>)
MainPackages == { PkgA, PkgA2, PkgApp }

MainPaths ==
    { Cwd \o <<Src, <<"main", ".rs">>>>,
      <<RootDir, Reg, <<"a">>, Src, <<"lib", ".rs">>>>,
      <<RootDir, Reg, <<"a">>, Src, <<"b", ".rs">>>>,
      <<RootDir, Reg, <<"a2">>, Src, <<"lib", ".rs">>>> }

\* `#[derive(Reflect, Component)] pub struct T;` alone in a file, the same
\* with #[reflect(Component)] added, and a file that does not parse.
QualifyingFile == Content(TRUE, TRUE, <<Item("Struct", "Public", Qualifying, "T", None)>>)
RegisteredFile == Content(TRUE, TRUE, <<Item("Struct", "Public", Registered, "T", None)>>)
BrokenFile == Content(TRUE, FALSE, <<>>)
MainContents == { QualifyingFile, RegisteredFile, BrokenFile }

\* cargo reports one more package.
AddPackage(pkg) ==
    /\ pc = "world"
    /\ pkg \notin Range(metadata)
    /\ metadata' = Append(metadata, pkg)
    /\ UNCHANGED <<pc, fs>>
    /\ UNCHANGED <<detectVars, walkVars, reflect_types, resolveVars, mainVars>>

\* The command is run.
MainEnter ==
    /\ pc = "world"
    /\ pc' = "main"
    /\ UNCHANGED <<detectVars, walkVars, reflect_types, resolveVars, worldVars, mainVars>>

\* MetadataCommand::new().exec() succeeds.
FetchMetadata ==
    /\ pc = "main"
    /\ pc' = "collect_local"
    /\ source_files' = <<>>
    /\ UNCHANGED <<dir, module_tree, pkg_idx, load_idx, visited, first_run>>
    /\ UNCHANGED <<detectVars, walkVars, reflect_types, resolveVars, worldVars>>

\* MetadataCommand::new().exec() fails: .expect panics, nothing is printed.
FetchMetadataFails ==
    /\ pc = "main"
    /\ pc' = "panicked"
    /\ UNCHANGED <<detectVars, walkVars, reflect_types, resolveVars, worldVars, mainVars>>

\* collect_source_files("./src", &mut source_files)
CollectLocal ==
    /\ pc = "collect_local"
    /\ \E order \in Orderings(collect_source_files(DOMAIN fs, <<CurDir, Src>>)) :
           source_files' = source_files \o order
    /\ pkg_idx' = 1
    /\ pc' = "collect_deps"
    /\ UNCHANGED <<dir, module_tree, load_idx, visited, first_run>>
    /\ UNCHANGED <<detectVars, walkVars, reflect_types, resolveVars, worldVars>>

\* One iteration of collect_dependency_files' `for package in &metadata.packages`.
CollectDependency ==
    /\ pc = "collect_deps"
    /\ pkg_idx <= Len(metadata)
    /\ LET package == metadata[pkg_idx]
           source == Parent(package.manifest_path)
       IN  IF StartsWithBevy(package.name) /\ source # None
           THEN \E order \in Orderings(collect_source_files(DOMAIN fs, source[1])) :
                    source_files' = source_files \o order
           ELSE source_files' = source_files
    /\ pkg_idx' = pkg_idx + 1
    /\ UNCHANGED <<pc, dir, module_tree, load_idx, visited, first_run>>
    /\ UNCHANGED <<detectVars, walkVars, reflect_types, resolveVars, worldVars>>

\* collect_dependency_files returns; `let mut module_tree = HashMap::new()`.
CollectDependencyDone ==
    /\ pc = "collect_deps"
    /\ pkg_idx > Len(metadata)
    /\ module_tree' = <<>>
    /\ load_idx' = 1
    /\ pc' = "load"
    /\ UNCHANGED <<dir, source_files, pkg_idx, visited, first_run>>
    /\ UNCHANGED <<detectVars, walkVars, reflect_types, resolveVars, worldVars>>

\* One iteration of `for path in &source_files`: a file that cannot be read
\* or parsed is passed over.
Load ==
    /\ pc = "load"
    /\ load_idx <= Len(source_files)
    /\ LET p == source_files[load_idx]
       IN  IF /\ Physical(p) \in DOMAIN fs
              /\ fs[Physical(p)].readable
              /\ fs[Physical(p)].parses
           THEN module_tree' = build_module_tree(p, fs[Physical(p)].items, module_tree)
           ELSE module_tree' = module_tree
    /\ load_idx' = load_idx + 1
    /\ UNCHANGED <<pc, dir, source_files, pkg_idx, visited, first_run>>
    /\ UNCHANGED <<detectVars, walkVars, reflect_types, resolveVars, worldVars>>

\* The first loop is over; `let mut reflect_types = Vec::new()`.
LoadDone ==
    /\ pc = "load"
    /\ load_idx > Len(source_files)
    /\ reflect_types' = <<>>
    /\ visited' = {}
    /\ pc' = "collect"
    /\ UNCHANGED <<dir, source_files, module_tree, pkg_idx, load_idx, first_run>>
    /\ UNCHANGED <<detectVars, walkVars, resolveVars, worldVars>>

\* One iteration of `for (path, syntax) in &module_tree`: the HashMap yields
\* its entries in an order of its own.
CollectNext(p) ==
    /\ pc = "collect"
    /\ p \in DOMAIN module_tree \ visited
    /\ reflect_types' = CollectFile(reflect_types, p, module_tree[p], metadata)
    /\ visited' = visited \cup {p}
    /\ UNCHANGED <<pc, dir, source_files, module_tree, pkg_idx, load_idx, first_run>>
    /\ UNCHANGED <<detectVars, walkVars, resolveVars, worldVars>>

\* println!("{:?}", reflect_types)
PrintFindings ==
    /\ pc = "collect"
    /\ visited = DOMAIN module_tree
    /\ pc' = "done"
    /\ UNCHANGED <<detectVars, walkVars, reflect_types, resolveVars, worldVars, mainVars>>

\* The command is run once more on the same source tree and metadata; the
\* first run's output is kept for comparison.
RunAgain ==
    /\ pc = "done"
    /\ first_run = None
    /\ first_run' = Some(reflect_types)
    /\ pc' = "main"
    /\ source_files' = <<>>
    /\ module_tree' = <<>>
    /\ pkg_idx' = 1
    /\ load_idx' = 1
    /\ visited' = {}
    /\ reflect_types' = <<>>
    /\ UNCHANGED dir
    /\ UNCHANGED <<detectVars, walkVars, resolveVars, worldVars>>

Init == AllInit /\ pc = "world"
Next ==
    \/ \E p \in MainPaths, c \in MainContents : AddFile(p, c, MaxFiles)
    \/ \E pkg \in MainPackages : AddPackage(pkg)
    \/ MainEnter
    \/ FetchMetadata
    \/ FetchMetadataFails
    \/ CollectLocal
    \/ CollectDependency
    \/ CollectDependencyDone
    \/ Load
    \/ LoadDone
    \/ \E p \in DOMAIN module_tree : CollectNext(p)
    \/ PrintFindings
    \/ RunAgain
Spec == Init /\ [][Next]_vars

\* The entries of a list with their multiplicities.
BagOfSeq(s) == [e \in Range(s) |-> Cardinality({ i \in DOMAIN s : s[i] = e })]

\* C2: when the only discovered file holds one public type T that derives
\* Reflect and Component without #[reflect(Component)], the findings are the
\* one entry <resolved module path>::T; with #[reflect(Component)] added they
\* are empty.
C2_EndToEnd ==
    (pc = "done" /\ Len(source_files) = 1) =>
        LET p == source_files[1]
            mp == resolve_module_path(p, metadata)
        IN  /\ fs[Physical(p)] = QualifyingFile =>
                   mp # None /\ reflect_types = <<mp[1] \o <<"::", "T">>>>
            /\ fs[Physical(p)] = RegisteredFile => reflect_types = <<>>

\* C7: two runs on the same source tree and metadata print the same findings
\* with the same multiplicities, whatever order discovery and the map yield
\* the files in.
C7_SameFindingsEveryRun ==
    (pc = "done" /\ first_run # None) => BagOfSeq(reflect_types) = BagOfSeq(first_run[1])

\* C7's case: the second run found the files in another order and printed the
\* same two findings the other way round.
C7_Witness ==
    /\ pc = "done"
    /\ first_run # None
    /\ Len(reflect_types) = 2
    /\ reflect_types # first_run[1]
====
